---- MODULE Spec2Model ----
(***************************************************************************)
(* Model of src/dtao-dca.py: the staking orchestration engine.             *)
(*                                                                         *)
(* Amounts are integers in rao (1 TAO = 10^9 rao, the unit bt.Balance      *)
(* stores); times are integer seconds counted from 1999-01-01T00:00:00,    *)
(* the sentinel read_schedule seeds, so that every 6-hour boundary is a    *)
(* multiple of 21600.                                                      *)
(*                                                                         *)
(* The single control flow of staking_manager is followed by pc; every     *)
(* await (a chain call, a sleep) ends an action.  The chain and the        *)
(* operator are the environment: each query and each mutation may succeed  *)
(* or raise, the operator may approve or decline when AUTO_MODE is off,    *)
(* and the root stake may be changed by others at the awaits.              *)
(***************************************************************************)
EXTENDS Integers, Sequences, FiniteSets, TLC

(* ------------------------------ bounds --------------------------------- *)
\* number of entries of SUBNET_CONFIGS the model keeps (netuids 1..NumSubnets)
NumSubnets == 2
\* seconds of run time explored after startup
Horizon == 120
\* chain calls that raise and operator refusals during one run
MaxFaults == 2
\* number of changes others make to the root stake during one run
MaxExternal == 1

(* -------------------------- program constants -------------------------- *)
ROOT_NETUID == 0
MIN_ROOT_STAKE == 1000000000
MIN_STAKE_THRESHOLD == 550000
SubnetAmount == 10000000
DIVIDEND_CHECK_INTERVAL == 60
HISTORY_LIMIT == 5
SETTLE_DELAY == 3
COOLDOWN == 15
TICK == 1
ERROR_BACKOFF == 10
RETRY_TRIES == 3
SENTINEL == 0
HOUR == 60 * 60
DAY == 24 * HOUR

\* SUBNET_CONFIGS: netuid -> amount to stake (the hotkey plays no part)
SUBNET_CONFIGS == [n \in 1..NumSubnets |-> SubnetAmount]
Netuids == 0..NumSubnets

Min(a, b) == IF a <= b THEN a ELSE b
Max(a, b) == IF a >= b THEN a ELSE b

RECURSIVE SumTo(_, _)
SumTo(f, n) == IF n = 0 THEN 0 ELSE f[n] + SumTo(f, n - 1)

\* total_required = sum(amount for amount, _ in SUBNET_CONFIGS.values())
total_required == SumTo(SUBNET_CONFIGS, NumSubnets)
\* required_excess = MIN_STAKE_THRESHOLD * len(SUBNET_CONFIGS)
required_excess == MIN_STAKE_THRESHOLD * NumSubnets

(* ------------------------------ inputs --------------------------------- *)
\* the process starts at 05:59:40 of day 2, 20 s before a boundary
StartTime == 2 * DAY + 6 * HOUR - 20
MaxTime == StartTime + Horizon
\* value of an absent or null "next_staking"
None == -1
\* root stakes the chain may hold: below the floor, at the floor, above it
\* by less than required_excess, above it by an amount no subnet count
\* of the model divides
StakeLevels == {MIN_ROOT_STAKE - 1000, MIN_ROOT_STAKE,
                MIN_ROOT_STAKE + 500000, MIN_ROOT_STAKE + 20000003}
\* root stakes at startup
InitialStakes == StakeLevels \ {MIN_ROOT_STAKE - 1000}
\* free balances: short of total_required, and enough for several cycles
BalanceLevels == {SubnetAmount + 5000000, 8 * SubnetAmount}
\* persisted next_staking at startup: null, the coming boundary, a boundary
\* more than one 6-hour interval ago, one more than two intervals ago
ScheduleLevels == {None, 2 * DAY + 6 * HOUR, 2 * DAY - 6 * HOUR,
                   2 * DAY - 12 * HOUR}

VARIABLES
  now,            \* datetime.utcnow()
  pc,             \* position of the control flow
  AUTO_MODE,      \* configuration flag
  file_exists,    \* SCHEDULE_FILE.exists()
  file_next,      \* "next_staking" of SCHEDULE_FILE (None when null)
  chain,          \* [stake: netuid -> rao, balance: rao] held by the chain
  ext,            \* changes made by others so far
  faults,         \* chain calls that raised and operator refusals so far
  history_log,    \* the history ledger
  mgr,            \* locals of staking_manager
  ue,             \* frame of unstake_excess
  sd,             \* frame of stake_dividend
  tx              \* stake-mutating calls issued to the chain: count and last

vars == <<now, pc, AUTO_MODE, file_exists, file_next, chain, ext, faults,
          history_log, mgr, ue, sd, tx>>

(* ------------------------------ helpers -------------------------------- *)
\* a ledger entry: the message's text, network, amount and percentage
\* (-1 where the message has none); the [HH:MM:SS] prefix is left out
Entry(tag, net, amt) == [tag |-> tag, net |-> net, amt |-> amt, pct |-> -1]

\* mutant: the entry just appended is the one deleted
append_history_DropsNewest(h, e) ==
  IF Len(h) + 1 > HISTORY_LIMIT THEN h ELSE Append(h, e)

\* append_history(message)
append_history(h, e) ==
  LET a == Append(h, e)
  IN IF Len(a) > HISTORY_LIMIT THEN Tail(a) ELSE a

\* mutant: the hour is rounded down to its 6-hour slot, not up to the next
next_staking_time_RoundsDown(ref) ==
  LET day == (ref \div DAY) * DAY
      current_hour == (ref % DAY) \div HOUR
      next_hour == (current_hour \div 6) * 6
  IN IF next_hour >= 24 THEN day + DAY ELSE day + next_hour * HOUR

\* next_staking_time(reference_time)
next_staking_time(ref) ==
  LET day == (ref \div DAY) * DAY
      current_hour == (ref % DAY) \div HOUR
      next_hour == ((current_hour \div 6) + 1) * 6
  IN IF next_hour >= 24 THEN day + DAY ELSE day + next_hour * HOUR

\* outcomes of one chain call or one prompt: TRUE, or FALSE (it raises, the
\* operator refuses) while the run has faults left
Outcomes(used) == IF faults + used < MaxFaults THEN {TRUE, FALSE} ELSE {TRUE}
Cost(ok) == IF ok THEN 0 ELSE 1

\* get_stake: the chain's value, or Balance(0) when the query raises
get_stake(netuid, ok) == IF ok THEN chain.stake[netuid] ELSE 0
\* get_balance: the chain's value, or Balance(0) when the query raises
get_balance(ok) == IF ok THEN chain.balance ELSE 0

\* mutant: the operator's answer is not looked at
user_confirmation_AlwaysYes(answer) == TRUE

\* user_confirmation: True in AUTO_MODE, else the operator's answer
user_confirmation(answer) == IF AUTO_MODE THEN TRUE ELSE answer
Answers(used) == IF AUTO_MODE THEN {TRUE} ELSE Outcomes(used)

\* Frames.  Beside the locals of the code they record what happened in the
\* call: tries (runs of the body), approved (what the operator, or
\* AUTO_MODE, answered),
\* issued (the mutation was sent), withdrawn (it succeeded), restake (the
\* emergency restake's outcome), read_ok (the last stake query succeeded),
\* ext_seen (changes by others before the read after the withdrawal).
NoFrameUE == [amount |-> 0, initial |-> 0, actual |-> 0, new_stake |-> 0,
              ret |-> 0, tries |-> 1, approved |-> FALSE, issued |-> FALSE,
              withdrawn |-> FALSE, restake |-> "none", read_ok |-> TRUE,
              ext_seen |-> 0]
NoFrameSD == [caller |-> "none", netuid |-> 0, amount |-> 0, ret |-> 0,
              tries |-> 1, issued |-> FALSE]
StakeFrame(caller, netuid, amount) ==
  [NoFrameSD EXCEPT !.caller = caller, !.netuid = netuid, !.amount = amount]
NoTx == [n |-> 0, op |-> "none", netuid |-> 0, amount |-> 0]

(* ------------------------------- Init ---------------------------------- *)
Init ==
  /\ now = StartTime
  /\ pc = "startup"
  /\ AUTO_MODE \in BOOLEAN
  /\ \/ file_exists = FALSE /\ file_next = None
     \/ file_exists = TRUE /\ file_next \in ScheduleLevels
  /\ \E s \in InitialStakes, b \in BalanceLevels :
       chain = [stake |-> [n \in Netuids |-> IF n = ROOT_NETUID THEN s ELSE 0],
                balance |-> b]
  /\ ext = 0
  /\ faults = 0
  /\ history_log = <<>>
  /\ mgr = [last_div_check |-> 0, current_stake |-> 0, balance |-> 0,
            excess |-> 0, next_staking |-> 0, original_next_staking |-> 0,
            actual_unstaked |-> 0, per_subnet |-> 0, successful_subnets |-> 0,
            idx |-> 0, distributed |-> 0, sched_cycles |-> 0]
  /\ ue = NoFrameUE
  /\ sd = NoFrameSD
  /\ tx = NoTx

(* ------------------- staking_manager: startup -------------------------- *)
\* mutant: the file is created anew without looking whether it exists
read_schedule_AlwaysSeeds == SENTINEL

\* read_schedule(): the file is created with the sentinel when absent
read_schedule == IF file_exists THEN file_next ELSE SENTINEL

\* mutant: the comparison is the other way round
Missed_Reversed(t, original) == t < original

\* if datetime.utcnow() > original_next_staking
Missed(t, original) == t > original

Startup ==
  /\ pc = "startup"
  /\ \E q1 \in Outcomes(0) : \E q2 \in Outcomes(Cost(q1)) :
       LET cs == get_stake(ROOT_NETUID, q1)
           bal == get_balance(q2)
           sched == read_schedule
           original == IF sched = None THEN next_staking_time(now) ELSE sched
           missed == Missed(now, original)
       IN /\ mgr' = [mgr EXCEPT !.last_div_check = now,
                                !.current_stake = cs,
                                !.balance = bal,
                                !.excess = cs - MIN_ROOT_STAKE,
                                !.original_next_staking = original,
                                !.next_staking = IF missed THEN now ELSE original]
          /\ history_log' = IF missed
                            THEN append_history(history_log,
                                   Entry("Recovering missed scheduled stake", -1, 0))
                            ELSE history_log
          /\ faults' = faults + Cost(q1) + Cost(q2)
  /\ file_exists' = TRUE
  /\ file_next' = read_schedule
  /\ pc' = "tick"
  /\ UNCHANGED <<now, AUTO_MODE, chain, ext, ue, sd, tx>>

\* update_dashboard(): refreshes current_stake, balance and excess
update_dashboard(m, cs, bal) ==
  [m EXCEPT !.current_stake = cs, !.balance = bal,
            !.excess = cs - MIN_ROOT_STAKE]

UpdateDashboard ==
  /\ pc = "tick"
  /\ \E q1 \in Outcomes(0) : \E q2 \in Outcomes(Cost(q1)) :
       /\ mgr' = update_dashboard(mgr, get_stake(ROOT_NETUID, q1), get_balance(q2))
       /\ faults' = faults + Cost(q1) + Cost(q2)
  /\ pc' = "div_check"
  /\ UNCHANGED <<now, AUTO_MODE, file_exists, file_next, chain, ext,
                 history_log, ue, sd, tx>>

(* ------------------- dividend rebalancing check ------------------------ *)
\* mutant: the interval is not added
DividendDue_NoInterval(t, last) == t >= last

\* datetime.utcnow() >= last_div_check + DIVIDEND_CHECK_INTERVAL
DividendDue(t, last) == t >= last + DIVIDEND_CHECK_INTERVAL

\* mutant: the threshold on the excess is left out
ShouldUnstake_NoThreshold(current_stake, excess) ==
  current_stake > MIN_ROOT_STAKE

\* current_stake.tao > MIN_ROOT_STAKE and excess >= required_excess
ShouldUnstake(current_stake, excess) ==
  current_stake > MIN_ROOT_STAKE /\ excess >= required_excess

DividendNotDue ==
  /\ pc = "div_check"
  /\ ~DividendDue(now, mgr.last_div_check)
  /\ pc' = "sched_check"
  /\ UNCHANGED <<faults, now, AUTO_MODE, file_exists, file_next, chain, ext,
                 history_log, mgr, ue, sd, tx>>

DividendInsufficient ==
  /\ pc = "div_check"
  /\ DividendDue(now, mgr.last_div_check)
  /\ ~ShouldUnstake(mgr.current_stake, mgr.excess)
  /\ history_log' = append_history(history_log,
                      Entry("Dividend check - insufficient excess", -1, 0))
  /\ mgr' = [mgr EXCEPT !.last_div_check = now]
  /\ pc' = "sched_check"
  /\ UNCHANGED <<faults, now, AUTO_MODE, file_exists, file_next, chain, ext, ue, sd, tx>>

\* actual_unstaked = await unstake_excess(..., ROOT_NETUID, root_hotkey, excess)
DividendUnstake ==
  /\ pc = "div_check"
  /\ DividendDue(now, mgr.last_div_check)
  /\ ShouldUnstake(mgr.current_stake, mgr.excess)
  /\ ue' = [NoFrameUE EXCEPT !.amount = mgr.excess]
  /\ pc' = "ue_begin"
  /\ UNCHANGED <<faults, now, AUTO_MODE, file_exists, file_next, chain, ext,
                 history_log, mgr, sd, tx>>

(* --------------------------- unstake_excess ---------------------------- *)
\* The retry decorator wraps a coroutine function whose body converts every
\* exception into a return of 0: no exception reaches it and the body runs
\* once per call.

\* mutant: the floor is not subtracted
SafeUnstake_NoFloor(amount, initial) == Min(amount, Max(0, initial))

\* max_safe_unstake = max(0, initial - MIN_ROOT_STAKE)
\* actual_unstake = min(amount, max_safe_unstake)
SafeUnstake(amount, initial) == Min(amount, Max(0, initial - MIN_ROOT_STAKE))

\* mutant: the deficit is one rao short
RestakeDeficit_Short(new_stake) == MIN_ROOT_STAKE - new_stake - 1

\* deficit = MIN_ROOT_STAKE - new_stake.tao
RestakeDeficit(new_stake) == MIN_ROOT_STAKE - new_stake

UnstakeBegin ==
  /\ pc = "ue_begin"
  /\ \E q \in Outcomes(0) : \E answer \in Answers(Cost(q)) :
       LET initial == get_stake(ROOT_NETUID, q)
           actual == SafeUnstake(ue.amount, initial)
           f == [ue EXCEPT !.initial = initial, !.new_stake = initial,
                           !.actual = actual, !.read_ok = q]
       IN IF actual <= 0
          THEN /\ history_log' = append_history(history_log,
                                   Entry("Unstake blocked", ROOT_NETUID, 0))
               /\ ue' = [f EXCEPT !.ret = 0]
               /\ faults' = faults + Cost(q)
               /\ pc' = "ue_finally"
          ELSE IF ~user_confirmation(answer)
          THEN /\ history_log' = append_history(history_log,
                                   Entry("Cancelled unstaking", ROOT_NETUID, 0))
               /\ ue' = [f EXCEPT !.ret = 0, !.approved = AUTO_MODE \/ answer]
               /\ faults' = faults + Cost(q) + Cost(answer)
               /\ pc' = "ue_finally"
          ELSE /\ history_log' = history_log
               /\ ue' = [f EXCEPT !.approved = AUTO_MODE \/ answer]
               /\ faults' = faults + Cost(q)
               /\ pc' = "ue_unstake"
  /\ UNCHANGED <<now, AUTO_MODE, file_exists, file_next, chain, ext, mgr, sd, tx>>

\* UnstakeCall with a failed call sent once more within the same
\* unstake_excess
UnstakeCall_ResendsOnFailure ==
  /\ pc = "ue_unstake"
  /\ tx' = [n |-> tx.n + 1, op |-> "unstake", netuid |-> ROOT_NETUID,
            amount |-> ue.actual]
  /\ \/ /\ chain.stake[ROOT_NETUID] >= ue.actual
        /\ chain' = [chain EXCEPT
                       !.stake[ROOT_NETUID] = @ - ue.actual,
                       !.balance = @ + ue.actual]
        /\ ue' = [ue EXCEPT !.issued = TRUE, !.withdrawn = TRUE]
        /\ history_log' = history_log
        /\ faults' = faults
        /\ pc' = "ue_settle"
     \/ /\ FALSE \in Outcomes(0) \/ chain.stake[ROOT_NETUID] < ue.actual
        /\ chain' = chain
        /\ faults' = IF chain.stake[ROOT_NETUID] < ue.actual
                     THEN faults ELSE faults + 1
        /\ ue' = [ue EXCEPT !.issued = TRUE, !.ret = 0]
        /\ history_log' = append_history(history_log,
                            Entry("Unstaking failed", ROOT_NETUID, 0))
        /\ pc' = IF ue.issued THEN "ue_finally" ELSE "ue_unstake"
  /\ UNCHANGED <<now, AUTO_MODE, file_exists, file_next, ext, mgr, sd>>

\* await subtensor.unstake(netuid, hotkey, amount=actual_unstake)
UnstakeCall ==
  /\ pc = "ue_unstake"
  /\ tx' = [n |-> tx.n + 1, op |-> "unstake", netuid |-> ROOT_NETUID,
            amount |-> ue.actual]
  /\ \/ /\ chain.stake[ROOT_NETUID] >= ue.actual
        /\ chain' = [chain EXCEPT
                       !.stake[ROOT_NETUID] = @ - ue.actual,
                       !.balance = @ + ue.actual]
        /\ ue' = [ue EXCEPT !.issued = TRUE, !.withdrawn = TRUE]
        /\ history_log' = history_log
        /\ faults' = faults
        /\ pc' = "ue_settle"
     \/ /\ FALSE \in Outcomes(0) \/ chain.stake[ROOT_NETUID] < ue.actual
        /\ chain' = chain
        /\ faults' = IF chain.stake[ROOT_NETUID] < ue.actual
                     THEN faults ELSE faults + 1
        /\ ue' = [ue EXCEPT !.issued = TRUE, !.ret = 0]
        /\ history_log' = append_history(history_log,
                            Entry("Unstaking failed", ROOT_NETUID, 0))
        /\ pc' = "ue_finally"
  /\ UNCHANGED <<now, AUTO_MODE, file_exists, file_next, ext, mgr, sd>>

\* await asyncio.sleep(3); new_stake = await get_stake(...)
UnstakeSettle ==
  /\ pc = "ue_settle"
  /\ now + SETTLE_DELAY <= MaxTime
  /\ now' = now + SETTLE_DELAY
  /\ \E q \in Outcomes(0) :
       LET new_stake == get_stake(ROOT_NETUID, q)
       IN /\ faults' = faults + Cost(q)
          /\ IF new_stake < MIN_ROOT_STAKE
             THEN /\ ue' = [ue EXCEPT !.new_stake = new_stake,
                                      !.read_ok = q, !.ext_seen = ext]
                  /\ sd' = StakeFrame("restake", ROOT_NETUID,
                                      RestakeDeficit(new_stake))
                  /\ history_log' = history_log
                  /\ pc' = "sd_begin"
             ELSE /\ ue' = [ue EXCEPT !.new_stake = new_stake,
                                      !.read_ok = q, !.ext_seen = ext,
                                      !.ret = ue.actual]
                  /\ sd' = sd
                  /\ history_log' = append_history(history_log,
                                      Entry("Unstaked", ROOT_NETUID, ue.actual))
                  /\ pc' = "ue_finally"
  /\ UNCHANGED <<AUTO_MODE, file_exists, file_next, chain, ext, mgr, tx>>

\* restake_result = await stake_dividend(...) has returned
UnstakeRestakeReturn ==
  /\ pc = "ue_restake_ret"
  /\ \E q \in Outcomes(0) :
       LET new_stake == get_stake(ROOT_NETUID, q)
           h == append_history(history_log,
                  IF sd.ret > 0
                  THEN Entry("Emergency restake", ROOT_NETUID, sd.amount)
                  ELSE Entry("Emergency restake FAILED", ROOT_NETUID, 0))
       IN /\ ue' = [ue EXCEPT !.restake = IF sd.ret > 0 THEN "ok" ELSE "failed",
                              !.new_stake = new_stake,
                              !.read_ok = q,
                              !.ret = ue.actual]
          /\ history_log' = append_history(h,
                              Entry("Unstaked", ROOT_NETUID, ue.actual))
          /\ faults' = faults + Cost(q)
  /\ pc' = "ue_finally"
  /\ UNCHANGED <<now, AUTO_MODE, file_exists, file_next, chain, ext, mgr, sd, tx>>

\* finally: await asyncio.sleep(15); the value reaches the caller
UnstakeFinally ==
  /\ pc = "ue_finally"
  /\ now + COOLDOWN <= MaxTime
  /\ now' = now + COOLDOWN
  /\ mgr' = [mgr EXCEPT !.actual_unstaked = ue.ret]
  /\ pc' = "div_after"
  /\ UNCHANGED <<faults, AUTO_MODE, file_exists, file_next, chain, ext,
                 history_log, ue, sd, tx>>

(* --------------------------- stake_dividend ---------------------------- *)
\* where stake_dividend returns to (through process_subnet for the loops)
ReturnPc(caller) ==
  CASE caller = "restake" -> "ue_restake_ret"
    [] caller = "fanout" -> "fanout_ret"
    [] OTHER -> "sched_ret"

\* StakeBegin with the declined confirmation returning to the caller at
\* once, the cool-down being the last statement of the try block
StakeBegin_DeclineSkipsCooldown ==
  /\ pc = "sd_begin"
  /\ \E answer \in Answers(0) :
       /\ faults' = faults + Cost(answer)
       /\ IF ~user_confirmation(answer)
          THEN /\ history_log' = append_history(history_log,
                                   Entry("Cancelled staking", sd.netuid, 0))
               /\ sd' = [sd EXCEPT !.ret = 0]
               /\ pc' = ReturnPc(sd.caller)
          ELSE /\ history_log' = history_log
               /\ sd' = sd
               /\ pc' = "sd_add"
  /\ UNCHANGED <<now, AUTO_MODE, file_exists, file_next, chain, ext, mgr, ue, tx>>

StakeBegin ==
  /\ pc = "sd_begin"
  /\ \E answer \in Answers(0) :
       /\ faults' = faults + Cost(answer)
       /\ IF ~user_confirmation(answer)
          THEN /\ history_log' = append_history(history_log,
                                   Entry("Cancelled staking", sd.netuid, 0))
               /\ sd' = [sd EXCEPT !.ret = 0]
               /\ pc' = "sd_finally"
          ELSE /\ history_log' = history_log
               /\ sd' = sd
               /\ pc' = "sd_add"
  /\ UNCHANGED <<now, AUTO_MODE, file_exists, file_next, chain, ext, mgr, ue, tx>>

\* await subtensor.add_stake(netuid, hotkey, amount)
StakeCall ==
  /\ pc = "sd_add"
  /\ tx' = [n |-> tx.n + 1, op |-> "add_stake", netuid |-> sd.netuid,
            amount |-> sd.amount]
  /\ \/ /\ chain.balance >= sd.amount
        /\ chain' = [chain EXCEPT
                       !.stake[sd.netuid] = @ + sd.amount,
                       !.balance = @ - sd.amount]
        /\ sd' = [sd EXCEPT !.issued = TRUE]
        /\ history_log' = history_log
        /\ faults' = faults
        /\ pc' = "sd_settle"
     \/ /\ FALSE \in Outcomes(0) \/ chain.balance < sd.amount
        /\ chain' = chain
        /\ faults' = IF chain.balance < sd.amount THEN faults ELSE faults + 1
        /\ sd' = [sd EXCEPT !.issued = TRUE, !.ret = 0]
        /\ history_log' = append_history(history_log,
                            Entry("Staking failed", sd.netuid, 0))
        /\ pc' = "sd_finally"
  /\ UNCHANGED <<now, AUTO_MODE, file_exists, file_next, ext, mgr, ue>>

\* await asyncio.sleep(3); new_stake is read for the log only
StakeSettle ==
  /\ pc = "sd_settle"
  /\ now + SETTLE_DELAY <= MaxTime
  /\ now' = now + SETTLE_DELAY
  /\ history_log' = append_history(history_log,
                      Entry("Staked", sd.netuid, sd.amount))
  /\ sd' = [sd EXCEPT !.ret = sd.amount]
  /\ pc' = "sd_finally"
  /\ UNCHANGED <<faults, AUTO_MODE, file_exists, file_next, chain, ext, mgr, ue, tx>>

\* finally: await asyncio.sleep(15); process_subnet hands the value on
StakeFinally ==
  /\ pc = "sd_finally"
  /\ now + COOLDOWN <= MaxTime
  /\ now' = now + COOLDOWN
  /\ pc' = ReturnPc(sd.caller)
  /\ UNCHANGED <<faults, AUTO_MODE, file_exists, file_next, chain, ext,
                 history_log, mgr, ue, sd, tx>>

(* ------------------------- dividend fan-out ---------------------------- *)
\* mutant: the amount is not divided
PerSubnet_NotDivided(actual_unstaked) == actual_unstaked

\* per_subnet = actual_unstaked / len(SUBNET_CONFIGS); Balance.from_tao
\* keeps whole rao
PerSubnet(actual_unstaked) == actual_unstaked \div NumSubnets

\* efficiency = successful_subnets / len(SUBNET_CONFIGS) * 100
Efficiency(successful_subnets) == (successful_subnets * 100) \div NumSubnets

FanoutStart ==
  /\ pc = "div_after"
  /\ mgr.actual_unstaked > 0
  /\ mgr' = [mgr EXCEPT !.per_subnet = PerSubnet(mgr.actual_unstaked),
                        !.successful_subnets = 0,
                        !.distributed = 0,
                        !.idx = 1]
  /\ pc' = "fanout"
  /\ UNCHANGED <<faults, now, AUTO_MODE, file_exists, file_next, chain, ext,
                 history_log, ue, sd, tx>>

DividendNoFunds ==
  /\ pc = "div_after"
  /\ ~(mgr.actual_unstaked > 0)
  /\ history_log' = append_history(history_log,
                      Entry("No funds available for distribution", -1, 0))
  /\ mgr' = [mgr EXCEPT !.last_div_check = now]
  /\ pc' = "sched_check"
  /\ UNCHANGED <<faults, now, AUTO_MODE, file_exists, file_next, chain, ext, ue, sd, tx>>

\* await process_subnet(subtensor, wallet, netuid, per_subnet, hotkey)
FanoutCall ==
  /\ pc = "fanout"
  /\ mgr.idx <= NumSubnets
  /\ sd' = StakeFrame("fanout", mgr.idx, mgr.per_subnet)
  /\ pc' = "sd_begin"
  /\ UNCHANGED <<faults, now, AUTO_MODE, file_exists, file_next, chain, ext,
                 history_log, mgr, ue, tx>>

\* successful_subnets += 1; await update_dashboard(); await asyncio.sleep(0)
\* (distributed adds up the values process_subnet returned, which the
\* code drops)
FanoutReturn ==
  /\ pc = "fanout_ret"
  /\ \E q1 \in Outcomes(0) : \E q2 \in Outcomes(Cost(q1)) :
       /\ mgr' = [update_dashboard(mgr, get_stake(ROOT_NETUID, q1),
                                   get_balance(q2)) EXCEPT
                    !.successful_subnets = @ + 1,
                    !.distributed = @ + sd.ret,
                    !.idx = @ + 1]
       /\ faults' = faults + Cost(q1) + Cost(q2)
  /\ pc' = "fanout"
  /\ UNCHANGED <<now, AUTO_MODE, file_exists, file_next, chain, ext,
                 history_log, ue, sd, tx>>

FanoutDone ==
  /\ pc = "fanout"
  /\ mgr.idx > NumSubnets
  /\ history_log' = append_history(history_log,
                      [tag |-> "Distributed", net |-> -1,
                       amt |-> mgr.actual_unstaked,
                       pct |-> Efficiency(mgr.successful_subnets)])
  /\ mgr' = [mgr EXCEPT !.last_div_check = now]
  /\ pc' = "sched_check"
  /\ UNCHANGED <<faults, now, AUTO_MODE, file_exists, file_next, chain, ext, ue, sd, tx>>

(* ----------------------- scheduled staking cycle ----------------------- *)
\* mutant: the balance is not looked at
ScheduledDue_IgnoresBalance(t, next_staking, balance) == t >= next_staking

\* datetime.utcnow() >= next_staking and balance.tao >= total_required
ScheduledDue(t, next_staking, balance) ==
  t >= next_staking /\ balance >= total_required

\* await asyncio.sleep(1)
TickSleep ==
  /\ pc = "sched_check"
  /\ ~ScheduledDue(now, mgr.next_staking, mgr.balance)
  /\ now + TICK <= MaxTime
  /\ now' = now + TICK
  /\ pc' = "tick"
  /\ UNCHANGED <<faults, AUTO_MODE, file_exists, file_next, chain, ext,
                 history_log, mgr, ue, sd, tx>>

ScheduledStart ==
  /\ pc = "sched_check"
  /\ ScheduledDue(now, mgr.next_staking, mgr.balance)
  /\ mgr' = [mgr EXCEPT !.idx = 1, !.sched_cycles = @ + 1]
  /\ pc' = "sched_loop"
  /\ UNCHANGED <<faults, now, AUTO_MODE, file_exists, file_next, chain, ext,
                 history_log, ue, sd, tx>>

\* await process_subnet(subtensor, wallet, netuid, amount, hotkey)
ScheduledCall ==
  /\ pc = "sched_loop"
  /\ mgr.idx <= NumSubnets
  /\ sd' = StakeFrame("sched", mgr.idx, SUBNET_CONFIGS[mgr.idx])
  /\ pc' = "sd_begin"
  /\ UNCHANGED <<faults, now, AUTO_MODE, file_exists, file_next, chain, ext,
                 history_log, mgr, ue, tx>>

\* ScheduledReturn with the cycle abandoned when a deposit returned 0
ScheduledReturn_AbortsOnFailure ==
  /\ pc = "sched_ret"
  /\ mgr' = [mgr EXCEPT !.idx = IF sd.ret = 0 THEN NumSubnets + 1 ELSE @ + 1]
  /\ pc' = "sched_loop"
  /\ UNCHANGED <<faults, now, AUTO_MODE, file_exists, file_next, chain, ext,
                 history_log, ue, sd, tx>>

ScheduledReturn ==
  /\ pc = "sched_ret"
  /\ mgr' = [mgr EXCEPT !.idx = @ + 1]
  /\ pc' = "sched_loop"
  /\ UNCHANGED <<faults, now, AUTO_MODE, file_exists, file_next, chain, ext,
                 history_log, ue, sd, tx>>

\* RecomputeNextStaking with the NameError left uncaught: staking_manager
\* ends and no further iteration runs.
RecomputeNextStaking_Terminates ==
  /\ pc = "sched_loop"
  /\ mgr.idx > NumSubnets
  /\ pc' = "stopped"
  /\ UNCHANGED <<now, faults, AUTO_MODE, file_exists, file_next, chain, ext,
                 history_log, mgr, ue, sd, tx>>

\* RecomputeNextStaking with the in-memory schedule advanced before the
\* statement that fails.
RecomputeNextStaking_AdvancesInMemory ==
  /\ pc = "sched_loop"
  /\ mgr.idx > NumSubnets
  /\ now + ERROR_BACKOFF <= MaxTime
  /\ now' = now + ERROR_BACKOFF
  /\ mgr' = [mgr EXCEPT !.next_staking = now + 6 * HOUR]
  /\ history_log' = append_history(history_log,
                      Entry("Error occurred in manager", -1, 0))
  /\ pc' = "tick"
  /\ UNCHANGED <<faults, AUTO_MODE, file_exists, file_next, chain, ext, ue, sd, tx>>

\* new_next = original_next_staking + STAKE_INTERVAL: the module defines no
\* STAKE_INTERVAL, the expression raises NameError, and lines 400-408 never
\* run.  The handler of the loop catches it: append_history("Error occurred
\* in manager"); await asyncio.sleep(10); next iteration.
RecomputeNextStaking ==
  /\ pc = "sched_loop"
  /\ mgr.idx > NumSubnets
  /\ now + ERROR_BACKOFF <= MaxTime
  /\ now' = now + ERROR_BACKOFF
  /\ history_log' = append_history(history_log,
                      Entry("Error occurred in manager", -1, 0))
  /\ pc' = "tick"
  /\ UNCHANGED <<faults, AUTO_MODE, file_exists, file_next, chain, ext, mgr, ue, sd, tx>>

(* ----------------------------- environment ----------------------------- *)
\* Others change the root stake between the dashboard's read and the end of
\* unstake_excess (earlier changes are Init's choice of the stake).
InUnstakeExcess ==
  \/ pc \in {"ue_begin", "ue_unstake", "ue_settle", "ue_restake_ret"}
  \/ pc \in {"sd_begin", "sd_add", "sd_settle", "sd_finally"} /\ sd.caller = "restake"

ExternalStakeChange ==
  /\ InUnstakeExcess
  /\ ext < MaxExternal
  /\ ext' = ext + 1
  /\ \E s \in StakeLevels \ {chain.stake[ROOT_NETUID]} :
       chain' = [chain EXCEPT !.stake[ROOT_NETUID] = s]
  /\ UNCHANGED <<faults, now, pc, AUTO_MODE, file_exists, file_next,
                 history_log, mgr, ue, sd, tx>>

Next ==
  \/ Startup
  \/ UpdateDashboard
  \/ DividendNotDue
  \/ DividendInsufficient
  \/ DividendUnstake
  \/ UnstakeBegin
  \/ UnstakeCall
  \/ UnstakeSettle
  \/ UnstakeRestakeReturn
  \/ UnstakeFinally
  \/ StakeBegin
  \/ StakeCall
  \/ StakeSettle
  \/ StakeFinally
  \/ FanoutStart
  \/ DividendNoFunds
  \/ FanoutCall
  \/ FanoutReturn
  \/ FanoutDone
  \/ TickSleep
  \/ ScheduledStart
  \/ ScheduledCall
  \/ ScheduledReturn
  \/ RecomputeNextStaking
  \/ ExternalStakeChange

Spec == Init /\ [][Next]_vars

(* ============================== claims ================================= *)
\* unstake_excess has completed and its value has reached staking_manager
UnstakeReturned == pc = "div_after"

HasEntry(tag) == \E i \in 1..Len(history_log) : history_log[i].tag = tag
LastTag == IF Len(history_log) = 0 THEN "" ELSE history_log[Len(history_log)].tag

\* the floor-clamped amount, written out
Clamp(r, c) ==
  LET room == IF c - MIN_ROOT_STAKE > 0 THEN c - MIN_ROOT_STAKE ELSE 0
  IN IF r <= room THEN r ELSE room

C2_ReturnIsClamp ==
  UnstakeReturned =>
    /\ ue.ret = Clamp(ue.amount, ue.initial)
    /\ ue.ret >= 0

\* C2 amended: the amount sent to the chain is
\* min(r, max(0, c - MIN_ROOT_STAKE)); unstake_excess returns that amount
\* when the withdrawal succeeded and 0 when it was blocked, declined or
\* failed; the returned value is never negative.
C2_ClampWithdrawnOrZero ==
  /\ pc = "ue_settle" =>
       /\ tx.op = "unstake"
       /\ tx.amount = Clamp(ue.amount, ue.initial)
  /\ UnstakeReturned =>
       /\ ue.ret = IF ue.withdrawn THEN Clamp(ue.amount, ue.initial) ELSE 0
       /\ ue.ret >= 0

\* C2 witness: a completed withdrawal in which the clamp cut the request:
\* the stake read at the start left less room than the amount asked for.
C2_Witness ==
  /\ UnstakeReturned
  /\ ue.withdrawn
  /\ ue.ret > 0
  /\ ue.ret < ue.amount

\* C3: the unstake call is sent only from unstake_excess with a clamped
\* amount > 0 that the operator approved, for the root network, and for no
\* more than (stake read at the start - MIN_ROOT_STAKE); when the clamped
\* amount is <= 0 or the operator declined, the call returns 0, its last
\* ledger entry is the blocked or cancelled event, and no stake-mutating call
\* was sent.
C3_StateOk ==
  /\ pc = "ue_unstake" =>
       /\ ue.actual > 0
       /\ ue.approved
       /\ ue.actual <= ue.initial - MIN_ROOT_STAKE
  /\ (pc = "ue_finally" /\ (Clamp(ue.amount, ue.initial) <= 0 \/ ~ue.approved)) =>
       /\ ue.ret = 0
       /\ ~ue.issued
       /\ ~ue.withdrawn
       /\ LastTag = (IF Clamp(ue.amount, ue.initial) <= 0
                     THEN "Unstake blocked" ELSE "Cancelled unstaking")

C3_StepOk ==
  /\ (tx'.n # tx.n /\ tx'.op = "unstake") =>
       /\ pc = "ue_unstake"
       /\ tx'.netuid = ROOT_NETUID
       /\ tx'.amount > 0
       /\ tx'.amount <= ue.initial - MIN_ROOT_STAKE
  /\ (pc = "ue_begin" /\ pc' = "ue_finally") => (tx' = tx /\ chain' = chain)
  /\ (pc = "ue_finally" /\ ~ue.issued) => (tx' = tx /\ chain' = chain)
  /\ chain' # chain => (tx'.n # tx.n \/ ext' # ext)

C3_WithdrawalOnlyWhenSafeAndApproved == [](C3_StateOk) /\ [][C3_StepOk]_vars

\* C3 witness: the operator declined a withdrawal whose clamped amount was
\* positive, and the call is about to return 0 with nothing sent.
C3_Witness ==
  /\ pc = "ue_finally"
  /\ Clamp(ue.amount, ue.initial) > 0
  /\ ~ue.approved
  /\ ~ue.issued

\* the interval the scheduled cycle names (6 hours, the spacing of the
\* boundaries next_staking_time rounds to); the module never defines it
STAKE_INTERVAL == 6 * HOUR

\* the smallest original + k * STAKE_INTERVAL, k >= 1, strictly after t
ExpectedNext(original, t) ==
  IF t < original + STAKE_INTERVAL
  THEN original + STAKE_INTERVAL
  ELSE original + STAKE_INTERVAL * (((t - original) \div STAKE_INTERVAL) + 1)

\* the scheduled cycle has called process_subnet for every subnet
ScheduledDepositsDone == pc = "sched_loop" /\ mgr.idx > NumSubnets

\* C4: when the scheduled cycle has made its deposits, the step that
\* follows sets next_staking to the previous scheduled time plus the least
\* number of 6-hour intervals that is strictly after now, and writes the
\* same value to the schedule file.
C4_NextStakingRecomputed ==
  [][ScheduledDepositsDone =>
       /\ mgr'.next_staking = ExpectedNext(mgr.original_next_staking, now)
       /\ mgr'.next_staking > now
       /\ file_next' = mgr'.next_staking]_vars

\* C5: when the persisted next_staking was two or more intervals in the past
\* at startup, the scheduled cycle starts at most once until the clock
\* reaches the recomputed next_staking (later than the whole run explored).
C5_MissedCyclesRunOnce ==
  (pc # "startup" /\ file_next <= StartTime - 2 * STAKE_INTERVAL
     /\ MaxTime < StartTime + STAKE_INTERVAL)
    => mgr.sched_cycles <= 1

\* the control flow is inside the scheduled cycle
InScheduledCycle ==
  \/ pc \in {"sched_loop", "sched_ret"}
  \/ pc \in {"sd_begin", "sd_add", "sd_settle", "sd_finally"} /\ sd.caller = "sched"

\* C6: at the scheduled check of a tick where the cycle is due but the
\* balance read is below the sum of the configured amounts, the tick ends
\* with no call sent to the chain and with next_staking and the schedule
\* file unchanged, so the cycle is still due at the next tick; the scheduled
\* cycle is entered, and its deposits sent, only with now >= next_staking
\* and balance >= the sum of the configured amounts.
C6_StateOk ==
  InScheduledCycle =>
    /\ now >= mgr.next_staking
    /\ mgr.balance >= SubnetAmount * NumSubnets

C6_StepOk ==
  /\ (pc = "sched_check" /\ now >= mgr.next_staking
        /\ mgr.balance < SubnetAmount * NumSubnets) =>
       /\ pc' = "tick"
       /\ tx' = tx
       /\ chain' = chain
       /\ mgr'.next_staking = mgr.next_staking
       /\ mgr'.original_next_staking = mgr.original_next_staking
       /\ file_next' = file_next
       /\ now' >= mgr'.next_staking
  /\ (~InScheduledCycle /\ InScheduledCycle') =>
       /\ pc = "sched_check"
       /\ now >= mgr.next_staking
       /\ mgr.balance >= SubnetAmount * NumSubnets

C6_UnderfundedCycleLeftDue == [](C6_StateOk) /\ [][C6_StepOk]_vars

\* C6 witness: a tick after the first finds the cycle due and the balance
\* short, at the scheduled check.
C6_Witness ==
  /\ pc = "sched_check"
  /\ now > StartTime
  /\ now >= mgr.next_staking
  /\ mgr.balance < SubnetAmount * NumSubnets
  /\ chain.balance < SubnetAmount * NumSubnets

\* C7: at a dividend check that is due, unstake_excess(root, excess) is
\* called exactly when root_stake > MIN_ROOT_STAKE and
\* excess = root_stake - MIN_ROOT_STAKE >= MIN_STAKE_THRESHOLD * subnet count;
\* otherwise the check records "insufficient excess" and sends nothing to
\* the chain; unstake_excess is entered from nowhere else.
C7_Sufficient ==
  /\ mgr.current_stake > MIN_ROOT_STAKE
  /\ mgr.current_stake - MIN_ROOT_STAKE >= MIN_STAKE_THRESHOLD * NumSubnets

C7_StepOk ==
  /\ (pc = "div_check" /\ now >= mgr.last_div_check + DIVIDEND_CHECK_INTERVAL) =>
       IF C7_Sufficient
       THEN /\ pc' = "ue_begin"
            /\ ue'.amount = mgr.current_stake - MIN_ROOT_STAKE
       ELSE /\ pc' = "sched_check"
            /\ Len(history_log') >= 1
            /\ history_log'[Len(history_log')].tag =
                 "Dividend check - insufficient excess"
            /\ tx' = tx
            /\ chain' = chain
  /\ (pc' = "ue_begin" /\ pc # "ue_begin") =>
       /\ pc = "div_check"
       /\ now >= mgr.last_div_check + DIVIDEND_CHECK_INTERVAL
       /\ C7_Sufficient

C7_UnstakeIffSufficientExcess == [][C7_StepOk]_vars

\* C7 witness: a due dividend check has just found the root stake exactly at
\* the floor and recorded the no-op event.
C7_Witness ==
  /\ pc = "sched_check"
  /\ mgr.current_stake = MIN_ROOT_STAKE
  /\ mgr.last_div_check = now
  /\ LastTag = "Dividend check - insufficient excess"

\* the fan-out has called process_subnet for every subnet
FanoutFinished == pc = "fanout" /\ mgr.idx > NumSubnets
InFanoutDeposit ==
  pc \in {"sd_begin", "sd_add", "sd_settle", "sd_finally"} /\ sd.caller = "fanout"

\* C8 as stated: every fan-out deposit is offered
\* actual_unstaked / subnet count, and when the fan-out ends the values the
\* deposits returned add up to actual_unstaked within the rounding of the
\* division (less than one rao per subnet).
C8_SumEqualsWithdrawn ==
  /\ InFanoutDeposit => sd.amount = mgr.actual_unstaked \div NumSubnets
  /\ FanoutFinished =>
       /\ mgr.distributed <= mgr.actual_unstaked
       /\ mgr.actual_unstaked - mgr.distributed < NumSubnets

\* C8 amended: every fan-out deposit is offered actual_unstaked / subnet
\* count; the values the deposits returned add up to that share times the
\* number of deposits that succeeded, which is actual_unstaked within the
\* rounding of the division when all succeeded and less otherwise.
C8_SumIsSharesOfSucceeded ==
  /\ InFanoutDeposit => sd.amount = mgr.actual_unstaked \div NumSubnets
  /\ FanoutFinished =>
       /\ mgr.distributed <= mgr.actual_unstaked
       /\ \E k \in 0..NumSubnets :
            /\ mgr.distributed = k * (mgr.actual_unstaked \div NumSubnets)
            /\ k = NumSubnets =>
                 mgr.actual_unstaked - mgr.distributed < NumSubnets

\* C8 witness: a fan-out has ended with every deposit made, and the division
\* lost a remainder.
C8_Witness ==
  /\ FanoutFinished
  /\ mgr.distributed = NumSubnets * (mgr.actual_unstaked \div NumSubnets)
  /\ mgr.distributed < mgr.actual_unstaked

\* C9: a transfer whose chain mutation failed returns 0 only after the
\* operation has been tried RETRY_TRIES times.
C9_FailureAfterThreeTries ==
  /\ (pc = "ue_finally" /\ ue.issued /\ ~ue.withdrawn) => ue.tries = RETRY_TRIES
  /\ (pc = "sd_finally" /\ sd.issued /\ sd.ret = 0) => sd.tries = RETRY_TRIES

\* h2 is h after one append of the last entry of h2, the oldest entry
\* leaving when the ledger would hold more than 5
Pushed(h, h2) ==
  /\ Len(h2) >= 1
  /\ LET a == h \o <<h2[Len(h2)]>>
     IN h2 = IF Len(a) > 5 THEN SubSeq(a, 2, Len(a)) ELSE a

\* C10: the ledger never holds more than 5 entries; every change to it is
\* an append (or two) at the end after which, if the bound was exceeded,
\* the oldest entry is gone and the others keep their order; and the entry
\* a settled deposit records is the last one of the ledger afterwards.
C10_StepOk ==
  /\ \/ history_log' = history_log
     \/ Pushed(history_log, history_log')
     \/ \E e \in {history_log'[i] : i \in 1..Len(history_log')} :
          \E mid \in {history_log \o <<e>>,
                      SubSeq(history_log \o <<e>>, 2, Len(history_log) + 1)} :
            /\ Pushed(history_log, mid)
            /\ Pushed(mid, history_log')
  /\ (pc = "sd_settle" /\ pc' = "sd_finally") =>
       /\ Pushed(history_log, history_log')
       /\ history_log'[Len(history_log')] =
            [tag |-> "Staked", net |-> sd.netuid, amt |-> sd.amount, pct |-> -1]

C10_HistoryBoundedFifo == [](Len(history_log) <= 5) /\ [][C10_StepOk]_vars

\* C10 witness: a full ledger from which the first entry ever recorded (the
\* recovery event of startup) has been evicted.
C10_Witness ==
  /\ Len(history_log) = 5
  /\ pc # "startup"
  /\ mgr.original_next_staking < StartTime
  /\ ~HasEntry("Recovering missed scheduled stake")

(* ------------------------------- C11 ----------------------------------- *)
\* the value startup takes as the scheduled time: the one in the schedule
\* file, or next_staking_time() when the file holds null
PersistedOrComputed ==
  IF file_next = None THEN next_staking_time(StartTime) ELSE file_next

C11_StateOk ==
  pc # "startup" =>
    /\ mgr.original_next_staking = PersistedOrComputed
    /\ mgr.next_staking \in {mgr.original_next_staking, StartTime}
    /\ (mgr.next_staking # mgr.original_next_staking
          => mgr.original_next_staking < StartTime)
    /\ (PersistedOrComputed <= now => ~HasEntry("Scheduled stake completed"))

\* C11, step part: the failure that ends a scheduled cycle after its deposits
\* leaves next_staking, original_next_staking and the schedule file as they
\* were, records the error and not a completion, and hands control to the
\* next tick with the cycle still due.
C11_StepOk ==
  ScheduledDepositsDone =>
    /\ mgr'.next_staking = mgr.next_staking
    /\ mgr'.original_next_staking = mgr.original_next_staking
    /\ file_next' = file_next
    /\ LastTag' = "Error occurred in manager"
    /\ pc' = "tick"
    /\ now' >= mgr'.next_staking

FairSpec == Spec /\ WF_vars(Next)

\* the longest an iteration takes from the handler's back-off to its
\* scheduled check: back-off, withdrawal with emergency restake, fan-out
Room == ERROR_BACKOFF + (2 + NumSubnets) * (SETTLE_DELAY + COOLDOWN)

\* the failure of an iteration is caught: recorded in the ledger, followed by
\* the back-off, and the next iteration starts
C12_StepOk ==
  ScheduledDepositsDone =>
    /\ history_log' = append_history(history_log,
                        Entry("Error occurred in manager", -1, 0))
    /\ now' = now + ERROR_BACKOFF
    /\ pc' = "tick"

\* the program has a next step in every state, up to the end of the time
\* explored
C12_NeverStops == (ENABLED Next) \/ now + COOLDOWN > MaxTime

\* C12: a failure inside an iteration never ends the loop: it is caught,
\* recorded in the history ledger and followed by the 10-second back-off,
\* after which another iteration starts; the loop always has a next step,
\* and after the failure it reaches the scheduled check of a later tick
\* again, which the dividend evaluation of that tick precedes.
C12_LoopSurvivesFailure ==
  /\ [][C12_StepOk]_vars
  /\ [](C12_NeverStops)
  /\ ((ScheduledDepositsDone /\ now + Room <= MaxTime) ~> (pc = "sched_check"))

\* after a failed iteration the loop has run a dividend check and started
\* the scheduled cycle a second time
C12_Witness ==
  /\ HasEntry("Error occurred in manager")
  /\ mgr.last_div_check > StartTime
  /\ mgr.sched_cycles = 2

(* ------------------------------- C13 ----------------------------------- *)
\* the number of fan-out deposits that returned an amount > 0: each of them
\* returned per_subnet
SucceededDeposits ==
  IF mgr.per_subnet > 0 THEN mgr.distributed \div mgr.per_subnet ELSE 0

\* C13: the success ratio recorded in the fan-out summary event is the number
\* of subnets whose deposit returned an amount > 0, over the subnet count,
\* times 100; a fan-out with a failed deposit reports less than 100.
C13_RatioCountsSucceededDeposits ==
  LastTag = "Distributed" =>
    history_log[Len(history_log)].pct
      = (SucceededDeposits * 100) \div NumSubnets

(* ------------------------------- C14 ----------------------------------- *)
\* stake_dividend is running
InStakeDividend == pc \in {"sd_begin", "sd_add", "sd_settle", "sd_finally"}

C14_StateOk ==
  \* a deposit that was declined or whose chain call failed returns 0
  /\ (pc = "sd_finally" /\ LastTag \in {"Staking failed", "Cancelled staking"})
       => sd.ret = 0
  \* the deposit that has returned to a loop is the one of the loop's
  \* current subnet
  /\ pc \in {"fanout_ret", "sched_ret"} => sd.netuid = mgr.idx
  /\ (InStakeDividend /\ sd.caller # "restake")
       => sd.netuid = mgr.idx /\ mgr.idx \in 1..NumSubnets

C14_StepOk ==
  \* stake_dividend returns to the statement after its call, whatever it
  \* returns
  /\ (pc = "sd_finally" /\ pc' # pc)
       => pc' = (CASE sd.caller = "fanout" -> "fanout_ret"
                   [] sd.caller = "sched" -> "sched_ret"
                   [] OTHER -> "ue_restake_ret")
  \* a loop starts with the first subnet, calls the deposit of its current
  \* subnet, moves to the next subnet after each return whatever was
  \* returned, and ends only after the last subnet
  /\ (pc \in {"div_after", "sched_check"} /\ pc' \in {"fanout", "sched_loop"})
       => mgr'.idx = 1
  /\ (~InStakeDividend /\ InStakeDividend' /\ sd'.caller # "restake")
       => /\ pc \in {"fanout", "sched_loop"}
          /\ sd'.caller = (IF pc = "fanout" THEN "fanout" ELSE "sched")
          /\ sd'.netuid = mgr.idx
          /\ mgr.idx <= NumSubnets
  /\ pc = "fanout_ret" => pc' = "fanout" /\ mgr'.idx = mgr.idx + 1
  /\ pc = "sched_ret" => pc' = "sched_loop" /\ mgr'.idx = mgr.idx + 1
  /\ (pc = "fanout" /\ pc' # "sd_begin") => mgr.idx = NumSubnets + 1
  /\ (pc = "sched_loop" /\ pc' # "sd_begin") => mgr.idx = NumSubnets + 1
  \* a tick evaluates the dividend cycle, and the scheduled cycle after it
  /\ pc = "tick" => pc' = "div_check"
  /\ (pc' = "sched_check" /\ pc # "sched_check")
       => pc \in {"div_check", "div_after", "fanout"}
  /\ (InScheduledCycle' /\ ~InScheduledCycle) => pc = "sched_check"

\* C14: a deposit that fails returns 0 to its caller and raises nothing; the
\* fan-out and the scheduled cycle each call the deposit of every configured
\* subnet once, in configuration order, one after the other, whether or not
\* earlier deposits failed; in a tick the dividend evaluation ends before the
\* scheduled evaluation starts.
C14_EverySubnetCalledInOrder == [](C14_StateOk) /\ [][C14_StepOk]_vars

\* the scheduled deposit of the first subnet failed on the chain and the
\* deposit of the second subnet is being called
C14_Witness ==
  /\ pc = "sd_begin"
  /\ sd.caller = "sched"
  /\ sd.netuid = 2
  /\ LastTag = "Staking failed"
  /\ history_log[Len(history_log)].net = 1

(* ------------------------------- C15 ----------------------------------- *)
\* C15: the emergency restake is invoked exactly when the root stake on the
\* chain after the withdrawal is below MIN_ROOT_STAKE, for the amount that
\* brings that stake back to the floor; it is not invoked when the stake on
\* the chain is at or above the floor, also when the query after the
\* withdrawal fails and reads zero; unstake_excess returns the amount it
\* withdrew whether or not a restake took place.
C15_RestakeExactlyBelowFloor ==
  /\ [][(pc = "ue_settle" /\ pc' # pc) =>
          /\ (pc' = "sd_begin") <=> (chain.stake[ROOT_NETUID] < MIN_ROOT_STAKE)
          /\ (pc' = "sd_begin") =>
               /\ sd'.netuid = ROOT_NETUID
               /\ sd'.amount = MIN_ROOT_STAKE - chain.stake[ROOT_NETUID]]_vars
  /\ []((UnstakeReturned /\ ue.withdrawn) => ue.ret = ue.actual)

(* ------------------------------- C16 ----------------------------------- *)
\* unstake_excess is running (the emergency restake it awaits included)
InUnstakeCall == InUnstakeExcess \/ pc = "ue_finally"

\* the statements that follow a call of unstake_excess or stake_dividend
AfterTransfer == {"div_after", "ue_restake_ret", "fanout_ret", "sched_ret"}

C16_StepOk ==
  \* stake_dividend is left only from its finally block, 15 s later
  /\ (InStakeDividend /\ ~InStakeDividend')
       => pc = "sd_finally" /\ now' = now + COOLDOWN
  \* unstake_excess is left only from its finally block, 15 s later
  /\ (InUnstakeCall /\ ~InUnstakeCall')
       => pc = "ue_finally" /\ now' = now + COOLDOWN
  \* a caller gets control back only that way
  /\ (pc' \in AfterTransfer /\ pc' # pc)
       => pc \in {"ue_finally", "sd_finally"} /\ now' = now + COOLDOWN
  \* every outcome of a call leads to the finally block
  /\ (ue'.ret # ue.ret /\ pc \in {"ue_settle", "ue_restake_ret"})
       => pc' = "ue_finally"
  /\ (pc \in {"ue_begin", "ue_unstake"} /\ pc' \notin {pc, "ue_unstake", "ue_settle"})
       => pc' = "ue_finally" /\ ue'.ret = 0
  /\ (pc \in {"sd_begin", "sd_add"} /\ pc' \notin {pc, "sd_add", "sd_settle"})
       => pc' = "sd_finally" /\ sd'.ret = 0
  /\ (pc = "sd_settle" /\ pc' # pc) => pc' = "sd_finally"

\* C16: every way out of unstake_excess and of stake_dividend (success,
\* failure on the chain, blocked withdrawal, declined confirmation) goes
\* through the 15-second cool-down before the caller continues.
C16_CooldownOnEveryExit == [][C16_StepOk]_vars

\* a blocked withdrawal has returned 0 to staking_manager
C16_Witness ==
  /\ pc = "div_after"
  /\ LastTag = "Unstake blocked"
  /\ ue.ret = 0
  /\ ~ue.issued

(* ------------------------------- C17 ----------------------------------- *)
\* a dividend check is under way: the withdrawal or the fan-out is running
InDividendCheck ==
  \/ InUnstakeCall
  \/ pc \in {"div_after", "fanout", "fanout_ret"}
  \/ InStakeDividend /\ sd.caller = "fanout"

\* a dividend check is under way only with the interval elapsed since
\* last_div_check, which is never ahead of the clock
C17_StateOk ==
  /\ InDividendCheck => now >= mgr.last_div_check + DIVIDEND_CHECK_INTERVAL
  /\ pc # "startup" => mgr.last_div_check <= now

C17_StepOk ==
  \* a check starts (it is entered, or it records its result at once) only
  \* with the interval elapsed
  /\ (pc = "div_check" /\ (InDividendCheck' \/ history_log' # history_log
                             \/ mgr'.last_div_check # mgr.last_div_check))
       => now >= mgr.last_div_check + DIVIDEND_CHECK_INTERVAL
  \* a check that has started ends at the scheduled check of the same tick
  \* with last_div_check set to the time of its end
  /\ (InDividendCheck /\ ~InDividendCheck')
       => pc' = "sched_check" /\ mgr'.last_div_check = now'
  /\ (pc = "div_check" /\ pc' = "sched_check"
        /\ now >= mgr.last_div_check + DIVIDEND_CHECK_INTERVAL)
       => mgr'.last_div_check = now'
  \* nothing else sets last_div_check after startup
  /\ (pc # "startup" /\ mgr'.last_div_check # mgr.last_div_check)
       => /\ pc' = "sched_check"
          /\ mgr'.last_div_check = now'
          /\ now >= mgr.last_div_check + DIVIDEND_CHECK_INTERVAL

\* C17: a dividend check starts only when now >= last_div_check +
\* DIVIDEND_CHECK_INTERVAL, and every check that starts ends by setting
\* last_div_check to the time of its end, whatever its outcome (funds
\* moved, insufficient excess, nothing withdrawn, deposits failed); two
\* checks in a row are therefore at least the interval apart, counted from
\* the end of the first.
C17_ChecksPacedFromCompletion == [](C17_StateOk) /\ [][C17_StepOk]_vars

\* a second dividend check has ended, one interval after the end of the
\* first
C17_Witness ==
  /\ pc = "sched_check"
  /\ mgr.last_div_check = now
  /\ now >= StartTime + 2 * DIVIDEND_CHECK_INTERVAL

(* ------------------------------- C18 ----------------------------------- *)
\* the ledger right after startup when the recovery event was recorded
RecoveryLedger == <<Entry("Recovering missed scheduled stake", -1, 0)>>

\* the first tick: no time has passed since startup
FirstTick == now = StartTime /\ pc \in {"tick", "div_check", "sched_check"}

C18_StateOk ==
  (pc # "startup" /\ file_next # None) =>
    IF file_next < StartTime
    THEN \* persisted time in the past: due from the first tick on, and the
         \* recovery event is what startup leaves in the ledger
         /\ mgr.next_staking = StartTime
         /\ now >= mgr.next_staking
         /\ FirstTick => history_log = RecoveryLedger
    ELSE \* persisted time not in the past: it is the in-memory time, no
         \* recovery event, no scheduled cycle before it
         /\ mgr.next_staking = file_next
         /\ ~HasEntry("Recovering missed scheduled stake")
         /\ FirstTick => history_log = <<>>
         /\ now < file_next => mgr.sched_cycles = 0 /\ ~InScheduledCycle

\* the scheduled check of the first tick after a recovery starts the cycle
\* when the balance covers it
C18_StepOk ==
  (pc = "sched_check" /\ now = StartTime /\ file_next # None
     /\ file_next < StartTime /\ mgr.balance >= total_required)
    => pc' = "sched_loop" /\ mgr'.sched_cycles = 1

\* C18: at startup a persisted next_staking strictly before now (the
\* sentinel written when the schedule file does not exist included) makes
\* the scheduled cycle due on the first tick and records "Recovering missed
\* scheduled stake"; a persisted next_staking not in the past becomes the
\* in-memory next_staking, no recovery event is recorded, and no scheduled
\* deposit is made before that time.
C18_StartupRecovery == [](C18_StateOk) /\ [][C18_StepOk]_vars

\* first run: the file was seeded with the sentinel, the recovery event is
\* the ledger, and the first tick has started the scheduled cycle
C18_Witness ==
  /\ pc = "sched_loop"
  /\ now = StartTime
  /\ file_next = SENTINEL
  /\ history_log = RecoveryLedger
  /\ mgr.sched_cycles = 1

(* ------------------------------- C19 ----------------------------------- *)
\* 00:00, 06:00, 12:00 or 18:00 of some day
OnBoundary(t) == t % (6 * HOUR) = 0

\* reference times: every hour of two days, at its start, one second and
\* half an hour into it, and at its last second
RefTimes ==
  {d * DAY + h * HOUR + s : d \in 1..2, h \in 0..23, s \in {0, 1, 1800, 3599}}

\* next_staking_time returns the first 6-hour boundary after its argument
NextBoundaryAfter ==
  \A ref \in RefTimes :
    LET r == next_staking_time(ref)
    IN /\ OnBoundary(r)
       /\ r > ref
       /\ r - ref <= 6 * HOUR
       /\ ((ref % DAY) >= 18 * HOUR => r = ((ref \div DAY) + 1) * DAY)

\* C19 as stated: next_staking_time returns the next 6-hour boundary after
\* its argument, and after startup the in-memory next_staking and the
\* next_staking of the schedule file are on a 6-hour boundary.
C19_AlwaysOnBoundary ==
  /\ NextBoundaryAfter
  /\ pc # "startup" =>
       /\ OnBoundary(mgr.next_staking)
       /\ file_next # None => OnBoundary(file_next)

\* C19 (amended): next_staking_time returns the next 6-hour boundary after
\* its argument; after startup the next_staking of the schedule file (when
\* not null) and the in-memory original_next_staking are on a 6-hour
\* boundary, and so is the in-memory next_staking unless startup found the
\* persisted time in the past, in which case it is the startup time.
C19_BoundaryExceptRecovery ==
  /\ NextBoundaryAfter
  /\ pc # "startup" =>
       /\ OnBoundary(mgr.original_next_staking)
       /\ file_next # None => OnBoundary(file_next)
       /\ \/ OnBoundary(mgr.next_staking)
          \/ /\ mgr.next_staking = StartTime
             /\ mgr.original_next_staking < StartTime

\* the file held null: startup took next_staking_time() as the scheduled
\* time, and the scheduled cycle has started at that boundary
C19_Witness ==
  /\ file_next = None
  /\ mgr.sched_cycles = 1
  /\ mgr.next_staking = 2 * DAY + 6 * HOUR
  /\ mgr.original_next_staking = mgr.next_staking

(* ------------------------------- C20 ----------------------------------- *)
\* the schedule file is written: it appears, or its next_staking changes
ScheduleWritten == file_exists' # file_exists \/ file_next' # file_next

\* the write that ends a scheduled cycle: the cycle was due and funded when
\* it started, every subnet's deposit has been called, and the value does
\* not go back
CycleEndWrite ==
  /\ ScheduledDepositsDone
  /\ now >= mgr.next_staking
  /\ file_next' >= file_next

\* C20 as stated: the next_staking of the schedule file is written only as
\* the last step of a scheduled cycle that was due and funded and has called
\* the deposit of every subnet, and never with an earlier value; no dividend
\* check, startup recovery, underfunded tick or failed iteration writes it.
C20_WrittenOnlyByCompletedCycle == [][ScheduleWritten => CycleEndWrite]_vars

\* read_schedule creates the file with the sentinel at a startup that finds
\* none
SeedWrite ==
  /\ pc = "startup"
  /\ ~file_exists
  /\ file_exists'
  /\ file_next' = SENTINEL

\* C20 (amended): the next_staking of the schedule file is written only by
\* read_schedule when startup finds no file (the sentinel), or as the last
\* step of a scheduled cycle that was due and funded and has called the
\* deposit of every subnet, and then never with an earlier value; startup
\* with a file present, dividend checks, underfunded ticks and failed
\* iterations leave it as it is.
C20_WrittenOnlyBySeedOrCycle ==
  [][ScheduleWritten => (SeedWrite \/ CycleEndWrite)]_vars

\* a startup recovery from an existing file, a dividend check and a failed
\* iteration have passed, and the file holds what it held
C20_Witness ==
  /\ file_next = 2 * DAY - 12 * HOUR
  /\ mgr.next_staking = StartTime
  /\ HasEntry("Error occurred in manager")
  /\ mgr.last_div_check > StartTime
  /\ pc = "sched_check"

(* ------------------------------- C21 ----------------------------------- *)
\* a call is sent to the chain
CallSent == tx'.n # tx.n

\* a subtensor.unstake call is sent
UnstakeSent == CallSent /\ tx'.op = "unstake"

C21_StepOk ==
  \* a withdrawal targets root, comes from the unstake_excess of a dividend
  \* check, and is the first one of that check
  /\ UnstakeSent
       => /\ tx'.netuid = ROOT_NETUID
          /\ pc = "ue_unstake"
          /\ InDividendCheck
          /\ now >= mgr.last_div_check + DIVIDEND_CHECK_INTERVAL
          /\ ~ue.issued
          /\ ue'.issued
  \* the mark of a withdrawal sent is cleared only when the next dividend
  \* check calls unstake_excess
  /\ (ue.issued /\ ~ue'.issued) => pc = "div_check" /\ pc' = "ue_begin"
  \* the scheduled cycle and the dashboard refresh send deposits at most
  /\ ((InScheduledCycle \/ pc \in {"tick", "sched_check", "fanout_ret"}) /\ CallSent)
       => tx'.op = "add_stake"
  \* the stake of a subnet never goes down; the stake of root goes down
  \* only by the withdrawal or by others' doing
  /\ \A n \in Netuids \ {ROOT_NETUID} : chain'.stake[n] >= chain.stake[n]
  /\ chain'.stake[ROOT_NETUID] < chain.stake[ROOT_NETUID]
       => UnstakeSent \/ ext' # ext

\* C21: the only call that lowers a stake is the withdrawal from the root
\* allocation (network 0); it is sent only inside a dividend check, at most
\* once per check; the scheduled cycle and the dashboard refresh send no
\* withdrawal, and the stake of no subnet is ever lowered.
C21_OnlyRootWithdrawnOncePerCheck == [][C21_StepOk]_vars

\* after a scheduled cycle that staked on a subnet, a dividend check has
\* sent its withdrawal from root
C21_Witness ==
  /\ pc = "ue_settle"
  /\ tx.op = "unstake"
  /\ tx.netuid = ROOT_NETUID
  /\ ue.issued
  /\ mgr.sched_cycles >= 1
  /\ chain.stake[1] > 0
====
